---------------------------- MODULE Spec2Model ----------------------------
(***************************************************************************)
(* The Parent component of the controlled-forms lesson (README.md, lines   *)
(* 284-330) and the NumberForm component it renders                        *)
(* (src/components/NumberForm.js).                                         *)
(*                                                                         *)
(* Parent owns four useState cells (firstName, lastName, number,           *)
(* isInvalidNumber) and three change handlers.  Each handler runs to       *)
(* completion on the UI event loop and is followed by a re-render, so one  *)
(* handler call plus its render is one action.                             *)
(*                                                                         *)
(* Text is a sequence of one-character strings, so that parseInt can be    *)
(* modelled character by character.  A JavaScript number is a record       *)
(* [isNaN, v]: either NaN or the integer v.  parseInt can also return -0;  *)
(* -0 and +0 are indistinguishable to everything this program does with    *)
(* them (>=, <=, template interpolation, the value attribute), so both are *)
(* v = 0.  Inputs are short, so every integer is exactly representable.    *)
(***************************************************************************)
EXTENDS Integers, Sequences, FiniteSets, TLC

VARIABLES
    firstName,        \* useState("Andy")
    lastName,         \* useState("Dandy")
    number,           \* useState(0)
    isInvalidNumber,  \* useState(null)
    dom,              \* what the last render of Parent put on screen
    lastRaw,          \* history: event.target.value of the latest number event
    numberBefore,     \* history: number just before the latest number event
    lastAccepted,     \* history: value the latest accepted number event parsed to
    invalidBefore,    \* history: isInvalidNumber was set just before the latest number event
    repeated          \* history: the latest number event repeated the text of the one before

vars == <<firstName, lastName, number, isInvalidNumber, dom,
          lastRaw, numberBefore, invalidBefore, lastAccepted, repeated>>

---------------------------------------------------------------------------
(* Bounds of the model.                                                    *)

\* Longest text a number event carries under Spec.
MaxLen == 2

\* Longest text the single number event carries under SpecParse.
MaxParseLen == 3

\* Characters a number event's text is made of under Spec.
InputChars == {"0", "3", "5", "9", "-", "x"}

\* Characters a number event's text is made of under SpecParse.
ParseChars ==
    {"0", "1", "2", "3", "4", "5", "6", "9", "-", "+", " ", "a", "x", "g"}

Texts(chars, n) == UNION {[1..k -> chars] : k \in 0..n}

RawTexts == Texts(InputChars, MaxLen)

ParseTexts == Texts(ParseChars, MaxParseLen)

\* Texts a name event carries.
NameTexts == {"Andy", "Dandy"}

---------------------------------------------------------------------------
(* JavaScript values.                                                      *)

NaN == [isNaN |-> TRUE, v |-> 0]

Num(k) == [isNaN |-> FALSE, v |-> k]

\* null, and a string, as values of the isInvalidNumber cell.
Null == [isNull |-> TRUE, str |-> ""]

Str(s) == [isNull |-> FALSE, str |-> s]

\* ToBoolean: null and the empty string are falsy.
Truthy(x) == ~x.isNull /\ x.str # ""

---------------------------------------------------------------------------
(* parseInt(string) with no radix argument, as ECMAScript defines it.      *)

IsWhiteSpace(c) == c = " "

RECURSIVE TrimStart(_)
TrimStart(s) ==
    IF s # <<>> /\ IsWhiteSpace(Head(s)) THEN TrimStart(Tail(s)) ELSE s

\* Value of a character as a digit; 36 for a character that is no digit
\* in any radix up to 16.
DigitValue(c) ==
    CASE c = "0" -> 0 [] c = "1" -> 1 [] c = "2" -> 2 [] c = "3" -> 3
      [] c = "4" -> 4 [] c = "5" -> 5 [] c = "6" -> 6 [] c = "7" -> 7
      [] c = "8" -> 8 [] c = "9" -> 9
      [] c \in {"a", "A"} -> 10 [] c \in {"b", "B"} -> 11
      [] c \in {"c", "C"} -> 12 [] c \in {"d", "D"} -> 13
      [] c \in {"e", "E"} -> 14 [] c \in {"f", "F"} -> 15
      [] OTHER -> 36

RECURSIVE DigitPrefix(_, _)
\* The longest prefix of s made of radix-R digits.
DigitPrefix(s, R) ==
    IF s # <<>> /\ DigitValue(Head(s)) < R
    THEN <<Head(s)>> \o DigitPrefix(Tail(s), R)
    ELSE <<>>

RECURSIVE MathInt(_, _)
\* The integer the digit string Z denotes in radix R.
MathInt(Z, R) ==
    IF Z = <<>> THEN 0
    ELSE MathInt(SubSeq(Z, 1, Len(Z) - 1), R) * R + DigitValue(Z[Len(Z)])

\* Number(string) in place of parseInt(string), for texts without a
\* fraction or exponent: the whole trimmed text must be a numeral, and the
\* empty text is 0.
parseIntWholeText(string) ==
    LET S0   == TrimStart(string)
        sign == IF S0 # <<>> /\ Head(S0) = "-" THEN -1 ELSE 1
        S1   == IF S0 # <<>> /\ Head(S0) \in {"+", "-"} THEN Tail(S0) ELSE S0
        Z    == DigitPrefix(S1, 10)
    IN  IF S0 = <<>> THEN Num(0)
        ELSE IF Z = <<>> \/ Z # S1 THEN NaN
        ELSE Num(sign * MathInt(Z, 10))

\* parseInt that forgets the sign.
parseIntNoSign(string) ==
    LET S0 == TrimStart(string)
        S1 == IF S0 # <<>> /\ Head(S0) \in {"+", "-"} THEN Tail(S0) ELSE S0
        hex == Len(S1) >= 2 /\ S1[1] = "0" /\ S1[2] \in {"x", "X"}
        R  == IF hex THEN 16 ELSE 10
        S2 == IF hex THEN Tail(Tail(S1)) ELSE S1
        Z  == DigitPrefix(S2, R)
    IN  IF Z = <<>> THEN NaN ELSE Num(MathInt(Z, R))

parseInt(string) ==
    LET S0   == TrimStart(string)
        sign == IF S0 # <<>> /\ Head(S0) = "-" THEN -1 ELSE 1
        S1   == IF S0 # <<>> /\ Head(S0) \in {"+", "-"} THEN Tail(S0) ELSE S0
        hex  == Len(S1) >= 2 /\ S1[1] = "0" /\ S1[2] \in {"x", "X"}
        R    == IF hex THEN 16 ELSE 10
        S2   == IF hex THEN Tail(Tail(S1)) ELSE S1
        Z    == DigitPrefix(S2, R)
    IN  IF Z = <<>> THEN NaN ELSE Num(sign * MathInt(Z, R))

---------------------------------------------------------------------------
(* Number to string, as template interpolation and the value attribute do. *)

DigitChar(d) ==
    CASE d = 0 -> "0" [] d = 1 -> "1" [] d = 2 -> "2" [] d = 3 -> "3"
      [] d = 4 -> "4" [] d = 5 -> "5" [] d = 6 -> "6" [] d = 7 -> "7"
      [] d = 8 -> "8" [] d = 9 -> "9"

RECURSIVE NatToString(_)
NatToString(k) ==
    IF k < 10 THEN DigitChar(k)
    ELSE NatToString(k \div 10) \o DigitChar(k % 10)

NumberToString(n) ==
    IF n.isNaN THEN "NaN"
    ELSE IF n.v < 0 THEN "-" \o NatToString(-n.v)
    ELSE NatToString(n.v)

---------------------------------------------------------------------------
(* handleNumberChange's pieces.                                            *)

\* newNumber >= 0 && newNumber < 5: the upper bound off by one.
InRangeBelowFive(newNumber) ==
    ~newNumber.isNaN /\ newNumber.v >= 0 /\ newNumber.v < 5

\* newNumber >= 0: the upper bound forgotten.
InRangeNoUpper(newNumber) ==
    ~newNumber.isNaN /\ newNumber.v >= 0

\* !(newNumber < 0 || newNumber > 5): both comparisons are false for NaN,
\* so NaN passes.
InRangeNegated(newNumber) ==
    ~(  (~newNumber.isNaN /\ newNumber.v < 0)
     \/ (~newNumber.isNaN /\ newNumber.v > 5))

\* newNumber >= 0 && newNumber <= 5; every comparison with NaN is false.
InRange(newNumber) ==
    ~newNumber.isNaN /\ newNumber.v >= 0 /\ newNumber.v <= 5

\* `${newNumber} is not a valid number!`
InvalidMessage(newNumber) ==
    NumberToString(newNumber) \o " is not a valid number!"

---------------------------------------------------------------------------
(* Rendering.                                                              *)

\* NumberForm: <input type="number" value={number} onChange=... />
NumberForm(n) == [value |-> NumberToString(n)]

\* Form: two text inputs bound to the names.
Form(fn, ln) == [first |-> fn, last |-> ln]

\* DisplayData: two headings showing the names.
DisplayData(fn, ln) == [h1First |-> fn, h1Last |-> ln]

\* Parent's return value: Form, DisplayData, NumberForm and, when
\* isInvalidNumber is truthy, a red span holding it.
Render(fn, ln, n, inv) ==
    [form        |-> Form(fn, ln),
     displayData |-> DisplayData(fn, ln),
     numberForm  |-> NumberForm(n),
     span        |-> IF Truthy(inv) THEN inv ELSE Null]

---------------------------------------------------------------------------
(* State.                                                                  *)

\* lastRaw before any number event.
NoCall == <<"no number event yet">>

Init ==
    /\ firstName = "Andy"
    /\ lastName = "Dandy"
    /\ number = Num(0)
    /\ isInvalidNumber = Null
    /\ dom = Render("Andy", "Dandy", Num(0), Null)
    /\ lastRaw = NoCall
    /\ numberBefore = Num(0)
    /\ invalidBefore = FALSE
    /\ lastAccepted = Num(0)
    /\ repeated = FALSE

---------------------------------------------------------------------------
(* Handlers.  Each ends with the re-render its state change causes.        *)

\* handleFirstNameChange that also resets the number field's error.
HandleFirstNameChangeResets(value) ==
    /\ firstName' = value
    /\ isInvalidNumber' = Null
    /\ UNCHANGED <<lastName, number>>
    /\ dom' = Render(firstName', lastName', number', isInvalidNumber')

HandleFirstNameChange(value) ==
    /\ firstName' = value
    /\ UNCHANGED <<lastName, number, isInvalidNumber>>
    /\ dom' = Render(firstName', lastName', number', isInvalidNumber')

HandleLastNameChange(value) ==
    /\ lastName' = value
    /\ UNCHANGED <<firstName, number, isInvalidNumber>>
    /\ dom' = Render(firstName', lastName', number', isInvalidNumber')

\* handleNumberChange without setIsInvalidNumber(null), as in the lesson's
\* first version of the handler extended only by the else branch.
HandleNumberChangeNoClear(value) ==
    LET newNumber == parseInt(value) IN
    /\ IF InRange(newNumber)
       THEN /\ number' = newNumber
            /\ UNCHANGED isInvalidNumber
       ELSE /\ isInvalidNumber' = Str(InvalidMessage(newNumber))
            /\ UNCHANGED number
    /\ UNCHANGED <<firstName, lastName>>
    /\ dom' = Render(firstName', lastName', number', isInvalidNumber')

\* handleNumberChange as the lesson first writes it (README.md, 238-243):
\* an invalid value is dropped and no message is ever set.
HandleNumberChangeNoMessage(value) ==
    LET newNumber == parseInt(value) IN
    /\ IF InRange(newNumber)
       THEN number' = newNumber
       ELSE UNCHANGED number
    /\ UNCHANGED <<firstName, lastName, isInvalidNumber>>
    /\ dom' = Render(firstName', lastName', number', isInvalidNumber')

\* handleNumberChange with setNumber moved out of the if.
HandleNumberChangeAlwaysSets(value) ==
    LET newNumber == parseInt(value) IN
    /\ number' = newNumber
    /\ IF InRange(newNumber)
       THEN isInvalidNumber' = Null
       ELSE isInvalidNumber' = Str(InvalidMessage(newNumber))
    /\ UNCHANGED <<firstName, lastName>>
    /\ dom' = Render(firstName', lastName', number', isInvalidNumber')

\* handleNumberChange whose number input is uncontrolled: the field keeps
\* showing what was typed.
HandleNumberChangeUncontrolled(value) ==
    LET newNumber == parseInt(value) IN
    /\ IF InRange(newNumber)
       THEN /\ number' = newNumber
            /\ isInvalidNumber' = Null
       ELSE /\ isInvalidNumber' = Str(InvalidMessage(newNumber))
            /\ UNCHANGED number
    /\ UNCHANGED <<firstName, lastName>>
    /\ dom' = [Render(firstName', lastName', number', isInvalidNumber')
                 EXCEPT !.numberForm = NumberForm(newNumber)]

HandleNumberChange(value) ==
    LET newNumber == parseInt(value) IN
    /\ IF InRange(newNumber)
       THEN /\ number' = newNumber
            /\ isInvalidNumber' = Null
       ELSE /\ isInvalidNumber' = Str(InvalidMessage(newNumber))
            /\ UNCHANGED number
    /\ UNCHANGED <<firstName, lastName>>
    /\ dom' = Render(firstName', lastName', number', isInvalidNumber')

---------------------------------------------------------------------------
(* Events: a handler call, plus the history it leaves.                     *)

\* Whether a text is one a correct bounded field commits, and to what:
\* decided here from the parse alone, independently of the handler.
Commits(value) ==
    /\ ~parseInt(value).isNaN
    /\ parseInt(value).v \in 0..5

FirstNameEvent ==
    \E value \in NameTexts :
        /\ HandleFirstNameChange(value)
        /\ UNCHANGED <<lastRaw, numberBefore, invalidBefore, lastAccepted, repeated>>

LastNameEvent ==
    \E value \in NameTexts :
        /\ HandleLastNameChange(value)
        /\ UNCHANGED <<lastRaw, numberBefore, invalidBefore, lastAccepted, repeated>>

RecordNumberEvent(value) ==
    /\ lastRaw' = value
    /\ numberBefore' = number
    /\ invalidBefore' = ~isInvalidNumber.isNull
    /\ lastAccepted' = IF Commits(value) THEN parseInt(value) ELSE lastAccepted
    /\ repeated' = (lastRaw = value)

NumberEvent ==
    \E value \in RawTexts :
        /\ HandleNumberChange(value)
        /\ RecordNumberEvent(value)

Next == FirstNameEvent \/ LastNameEvent \/ NumberEvent

Spec == Init /\ [][Next]_vars

---------------------------------------------------------------------------
(* One handleNumberChange call on a longer text, from a state that earlier *)
(* events can have left.                                                   *)

InitParse ==
    /\ firstName = "Andy"
    /\ lastName = "Dandy"
    /\ number \in {Num(k) : k \in 0..5}
    /\ isInvalidNumber \in {Null, Str(InvalidMessage(Num(9)))}
    /\ dom = Render(firstName, lastName, number, isInvalidNumber)
    /\ lastRaw = NoCall
    /\ numberBefore = number
    /\ invalidBefore = ~isInvalidNumber.isNull
    /\ lastAccepted = number
    /\ repeated = FALSE

OneNumberEvent ==
    /\ lastRaw = NoCall
    /\ \E value \in ParseTexts :
        /\ HandleNumberChange(value)
        /\ RecordNumberEvent(value)

NextParse == OneNumberEvent

SpecParse == InitParse /\ [][NextParse]_vars

---------------------------------------------------------------------------
(* Vocabulary of the properties: decimal text written independently of the *)
(* program's own conversions.                                              *)

Digits == <<"0", "1", "2", "3", "4", "5", "6", "7", "8", "9">>

IsDigit(c) == \E i \in 1..10 : Digits[i] = c

RECURSIVE NatText(_)
\* The decimal numeral of a natural number, as a text.
NatText(k) ==
    IF k < 10 THEN <<Digits[k + 1]>>
    ELSE Append(NatText(k \div 10), Digits[(k % 10) + 1])

\* str(n): the decimal text of an integer.
DecimalText(n) == IF n < 0 THEN <<"-">> \o NatText(-n) ELSE NatText(n)

RECURSIVE NatValue(_)
NatValue(t) ==
    IF t = <<>> THEN 0
    ELSE 10 * NatValue(SubSeq(t, 1, Len(t) - 1))
         + (CHOOSE i \in 0..9 : Digits[i + 1] = t[Len(t)])

\* The integer a sign followed by digits denotes.
DecimalValue(t) ==
    IF Head(t) = "-" THEN -NatValue(Tail(t)) ELSE NatValue(t)

\* t is str(n) for some integer n.
IsDecimalText(t) ==
    LET d == IF t # <<>> /\ Head(t) = "-" THEN Tail(t) ELSE t
    IN  /\ d # <<>>
        /\ \A i \in 1..Len(d) : IsDigit(d[i])
        /\ DecimalText(DecimalValue(t)) = t

RECURSIVE Join(_)
\* A text as one string.
Join(t) == IF t = <<>> THEN "" ELSE Head(t) \o Join(Tail(t))

\* A number event has happened.
Called == lastRaw # NoCall

\* The first k characters of the latest text are str(n) for an integer n
\* and the rest, at least one character, holds no digit.
IntegerThenGarbage(k) ==
    /\ k \in 1..(Len(lastRaw) - 1)
    /\ IsDecimalText(SubSeq(lastRaw, 1, k))
    /\ \A i \in (k + 1)..Len(lastRaw) : ~IsDigit(lastRaw[i])

\* The latest text is "0" followed by x or X: what parseInt takes for the
\* prefix of a hexadecimal numeral.
HexPrefixed ==
    /\ Len(lastRaw) >= 2
    /\ lastRaw[1] = "0"
    /\ lastRaw[2] \in {"x", "X"}

\* What the leading integer n of the latest text must have led to.
DecidedOn(n) ==
    IF n \in 0..5
    THEN number = Num(n) /\ isInvalidNumber = Null
    ELSE /\ number = numberBefore
         /\ isInvalidNumber =
                Str(Join(DecimalText(n)) \o " is not a valid number!")

\* The message the latest number event must have left.
ExpectedMessage(raw) ==
    IF Commits(raw) THEN Null
    ELSE Str(NumberToString(parseInt(raw)) \o " is not a valid number!")

---------------------------------------------------------------------------
(* Properties.                                                             *)

\* C1: in every reachable state number is an integer in the closed range
\* [0, 5].
NumberWithinRange == ~number.isNaN /\ number.v \in 0..5

\* C1 witness: 5 was committed and a later number event was rejected.
NumberWithinRangeWitness ==
    /\ number = Num(5)
    /\ Called
    /\ ~isInvalidNumber.isNull

\* C2: after handleNumberChange on str(n) for an integer n in 0..5, from
\* whatever state, number is n and isInvalidNumber is null.
InRangeAccepted ==
    \A n \in 0..5 :
        lastRaw = DecimalText(n) => number = Num(n) /\ isInvalidNumber = Null

\* C2 witness: the boundary 5 was committed over another value while a
\* message was showing.
InRangeAcceptedWitness ==
    /\ lastRaw = <<"5">>
    /\ numberBefore = Num(2)
    /\ invalidBefore
    /\ number = Num(5)
    /\ isInvalidNumber = Null

MessageTracksLatestCall ==
    /\ ~Called => isInvalidNumber = Null /\ number = Num(0)
    /\ Called => /\ isInvalidNumber.isNull <=> Commits(lastRaw)
                 /\ isInvalidNumber = ExpectedMessage(lastRaw)

\* C4 witness: a message was showing, and the latest number event, an
\* accepted one, cleared it.
MessageTracksLatestCallWitness ==
    /\ invalidBefore
    /\ lastRaw = <<"3">>
    /\ isInvalidNumber = Null

\* C5: after handleNumberChange on a text that parses to NaN, number is
\* what it was before the call and isInvalidNumber is set; and the handler
\* completes on every such text.
UnparseableRejected ==
    /\ (Called /\ parseInt(lastRaw).isNaN)
           => /\ number = numberBefore
              /\ Truthy(isInvalidNumber)
    /\ ~Called =>
           \A value \in {t \in ParseTexts : parseInt(t).isNaN} :
               ENABLED (HandleNumberChange(value) /\ RecordNumberEvent(value))

\* C5 witness: a text of letters was rejected while 4 was the committed
\* value.
UnparseableRejectedWitness ==
    /\ lastRaw = <<"a", "g">>
    /\ numberBefore = Num(4)
    /\ number = Num(4)
    /\ isInvalidNumber = Str("NaN is not a valid number!")

\* C6: number is the value of the latest accepted number event, or 0 when
\* none was accepted.
NumberIsLatestAccepted == number = lastAccepted

\* C6 witness: 3 was committed and two number events in a row were
\* rejected since.
NumberIsLatestAcceptedWitness ==
    /\ number = Num(3)
    /\ numberBefore = Num(3)
    /\ invalidBefore
    /\ ~Commits(lastRaw)

\* C7: when a number event repeats the in-range text str(v) of the event
\* before it, number is v and isInvalidNumber is null, as they were before
\* the second call.
AcceptIdempotent ==
    \A v \in 0..5 :
        (repeated /\ lastRaw = DecimalText(v))
            => /\ number = Num(v)
               /\ isInvalidNumber = Null
               /\ numberBefore = number
               /\ ~invalidBefore

\* C7 witness: "5" was entered twice in a row.
AcceptIdempotentWitness ==
    /\ repeated
    /\ lastRaw = <<"5">>
    /\ number = Num(5)

DisplayFollowsState ==
    /\ dom.numberForm.value = Join(DecimalText(number.v))
    /\ dom.span.isNull <=> isInvalidNumber.isNull
    /\ dom.span = isInvalidNumber
    /\ (Called /\ ~Commits(lastRaw))
           => dom.numberForm.value = Join(DecimalText(numberBefore.v))

\* C9 witness: "9" was rejected; the field shows 3 and the span shows the
\* message.
DisplayFollowsStateWitness ==
    /\ lastRaw = <<"9">>
    /\ dom.numberForm.value = "3"
    /\ dom.span = Str("9 is not a valid number!")

\* C10: a step that changes a name changes neither number nor
\* isInvalidNumber, a step that changes number or isInvalidNumber changes
\* no name, and after every step number and isInvalidNumber are what the
\* number events alone determine.
CellsIndependent ==
    [][ /\ (firstName' # firstName \/ lastName' # lastName)
            => UNCHANGED <<number, isInvalidNumber, lastRaw>>
        /\ (number' # number \/ isInvalidNumber' # isInvalidNumber)
            => UNCHANGED <<firstName, lastName>>
        /\ number' = lastAccepted'
        /\ Called' => isInvalidNumber' = ExpectedMessage(lastRaw')
      ]_vars

\* C10 witness: both names were changed and number events were accepted
\* and rejected.
CellsIndependentWitness ==
    /\ firstName = "Dandy"
    /\ lastName = "Andy"
    /\ number = Num(3)
    /\ ~isInvalidNumber.isNull

===========================================================================
